---------------------------- MODULE Spec2Model ----------------------------
(***************************************************************************)
(* Model of src/services/viral_content_analyzer.py (ViralContentAnalyzer). *)
(*                                                                         *)
(* Python strings are sequences of one-character strings, so that          *)
(* str.lower(), the `in` substring test and re.findall(r'\d+') are         *)
(* computed character by character.  A Python dict is a record whose       *)
(* DOMAIN is the set of keys present.                                       *)
(***************************************************************************)
EXTENDS Integers, Sequences, FiniteSets, TLC

VARIABLES
    pc,                \* position of the running call
    HAS_INSTASCRAPE,   \* module flag set by the import at lines 19-23
    search_results,    \* argument of analyze_and_capture_viral_content
    max_captures,      \* argument of analyze_and_capture_viral_content
    analysis_results,  \* the dict built at lines 89-98 and returned
    viral_urls,        \* the slice handed to _analyze_with_instascrape
    idx,               \* number of candidates the enrichment loop has taken
    platform_analysis, \* the mapping the enrichment loop fills
    clock,             \* time units spent in asyncio.sleep(1)
    files,             \* contents of viral_data_dir
    outcomes,          \* what the scrape did for each candidate taken so far
    arg,               \* argument of a function applied on its own
    ret                \* its return value

vars == <<pc, HAS_INSTASCRAPE, search_results, max_captures, analysis_results,
          viral_urls, idx, platform_analysis, clock, files, outcomes, arg, ret>>

-----------------------------------------------------------------------------
(* Strings *)

UpperChars == <<"A","B","C","D","E","F","G","H","I","J","K","L","M",
                "N","O","P","Q","R","S","T","U","V","W","X","Y","Z">>
LowerChars == <<"a","b","c","d","e","f","g","h","i","j","k","l","m",
                "n","o","p","q","r","s","t","u","v","w","x","y","z">>

UpperSet == {UpperChars[i] : i \in 1..Len(UpperChars)}
LowerOf == [c \in UpperSet |->
               LowerChars[CHOOSE i \in 1..Len(UpperChars) : UpperChars[i] = c]]

LowerChar(c) == IF c \in UpperSet THEN LowerOf[c] ELSE c

\* str.lower()
Lower(s) == [i \in 1..Len(s) |-> LowerChar(s[i])]

\* needle in hay
Contains(hay, needle) ==
    \E i \in 1..(Len(hay) - Len(needle) + 1) :
        \A j \in 1..Len(needle) : hay[i + j - 1] = needle[j]

RECURSIVE Concat(_)
Concat(ss) == IF ss = <<>> THEN <<>> ELSE Head(ss) \o Concat(Tail(ss))

\* Python's None where a str is expected (Optional[str])
None == "None"

-----------------------------------------------------------------------------
(* _identify_platform, lines 165-182 *)

s_instagram_com == <<"i","n","s","t","a","g","r","a","m",".","c","o","m">>
s_youtube_com   == <<"y","o","u","t","u","b","e",".","c","o","m">>
s_youtu_be      == <<"y","o","u","t","u",".","b","e">>
s_facebook_com  == <<"f","a","c","e","b","o","o","k",".","c","o","m">>
s_fb_com        == <<"f","b",".","c","o","m">>
s_twitter_com   == <<"t","w","i","t","t","e","r",".","c","o","m">>
s_x_com         == <<"x",".","c","o","m">>
s_tiktok_com    == <<"t","i","k","t","o","k",".","c","o","m">>
s_linkedin_com  == <<"l","i","n","k","e","d","i","n",".","c","o","m">>

\* A mutation of _identify_platform: the URL is matched as written.
IdentifyPlatformCaseSensitive(url) ==
    IF Contains(url, s_instagram_com) THEN "instagram"
    ELSE IF Contains(url, s_youtube_com) \/ Contains(url, s_youtu_be) THEN "youtube"
    ELSE IF Contains(url, s_facebook_com) \/ Contains(url, s_fb_com) THEN "facebook"
    ELSE IF Contains(url, s_twitter_com) \/ Contains(url, s_x_com) THEN "twitter"
    ELSE IF Contains(url, s_tiktok_com) THEN "tiktok"
    ELSE IF Contains(url, s_linkedin_com) THEN "linkedin"
    ELSE None

\* url is a str here; the caller decides what a non-str url does.
_identify_platform(url) ==
    LET url_lower == Lower(url) IN
    IF Contains(url_lower, s_instagram_com) THEN "instagram"
    ELSE IF Contains(url_lower, s_youtube_com) \/ Contains(url_lower, s_youtu_be)
         THEN "youtube"
    ELSE IF Contains(url_lower, s_facebook_com) \/ Contains(url_lower, s_fb_com)
         THEN "facebook"
    ELSE IF Contains(url_lower, s_twitter_com) \/ Contains(url_lower, s_x_com)
         THEN "twitter"
    ELSE IF Contains(url_lower, s_tiktok_com) THEN "tiktok"
    ELSE IF Contains(url_lower, s_linkedin_com) THEN "linkedin"
    ELSE None

-----------------------------------------------------------------------------
(* Python values whose type the code tests or trips over *)

PyStr(s)      == [type |-> "str", s |-> s]
PyInt         == [type |-> "int"]
PyDict(d)     == [type |-> "dict", d |-> d]
PyList(items) == [type |-> "list", items |-> items]

\* {}
EmptyDict == <<>>

\* dict.get(key, default)
Get(d, key, default) == IF key \in DOMAIN d THEN d[key] ELSE default

-----------------------------------------------------------------------------
(* Text heuristics: _is_potentially_viral (184-207) and                    *)
(* _calculate_initial_score (209-245).  The letters with diacritics of the *)
(* Portuguese keywords are the one-character strings "o~", "c," and "a'".  *)

k_viral == <<"v","i","r","a","l">>
k_trending == <<"t","r","e","n","d","i","n","g">>
k_popular == <<"p","o","p","u","l","a","r">>
k_milhoes == <<"m","i","l","h","o~","e","s">>
k_millions == <<"m","i","l","l","i","o","n","s">>
k_views == <<"v","i","e","w","s">>
k_visualizacoes == <<"v","i","s","u","a","l","i","z","a","c,","o~","e","s">>
k_curtidas == <<"c","u","r","t","i","d","a","s">>
k_likes == <<"l","i","k","e","s">>
k_shares == <<"s","h","a","r","e","s">>
k_compartilhamentos == <<"c","o","m","p","a","r","t","i","l","h","a","m","e","n","t","o","s">>
k_comentarios == <<"c","o","m","e","n","t","a'","r","i","o","s">>
k_comments == <<"c","o","m","m","e","n","t","s">>

DigitChars == <<"0","1","2","3","4","5","6","7","8","9">>
DigitSet == {DigitChars[i] : i \in 1..Len(DigitChars)}
DigitOf == [c \in DigitSet |->
               (CHOOSE i \in 1..Len(DigitChars) : DigitChars[i] = c) - 1]
IsDigit(c) == c \in DigitSet
DigitVal(c) == DigitOf[c]

\* [int(num) for num in re.findall(r'\d+', s)]: the maximal runs of digits
RECURSIVE NumbersFrom(_, _, _, _)
NumbersFrom(s, i, inrun, cur) ==
    IF i > Len(s) THEN (IF inrun THEN <<cur>> ELSE <<>>)
    ELSE IF IsDigit(s[i]) THEN NumbersFrom(s, i + 1, TRUE, 10 * cur + DigitVal(s[i]))
    ELSE (IF inrun THEN <<cur>> ELSE <<>>) \o NumbersFrom(s, i + 1, FALSE, 0)

FindNumbers(s) == NumbersFrom(s, 1, FALSE, 0)

\* f"{result.get('title', '')} {result.get('description', '')}".lower()
TextContent(result) ==
    Lower(Get(result, "title", <<>>) \o <<" ">> \o Get(result, "description", <<>>))

\* lines 188-192
IsViralKeywords == {k_viral, k_trending, k_popular, k_milhoes, k_millions,
                    k_views, k_visualizacoes, k_curtidas, k_likes, k_shares,
                    k_compartilhamentos, k_comentarios, k_comments}

_is_potentially_viral(result, platform) ==
    LET text_content == TextContent(result)
        has_viral_keywords == \E keyword \in IsViralKeywords :
                                  Contains(text_content, keyword)
        numbers == FindNumbers(text_content)
        has_large_numbers == \E i \in 1..Len(numbers) : numbers[i] > 1000
    IN has_viral_keywords \/ has_large_numbers

\* lines 217-222
ScoreKeywords == <<
    [keyword |-> k_viral, points |-> 10], [keyword |-> k_trending, points |-> 8],
    [keyword |-> k_popular, points |-> 6],
    [keyword |-> k_milhoes, points |-> 15], [keyword |-> k_millions, points |-> 15],
    [keyword |-> k_views, points |-> 5], [keyword |-> k_visualizacoes, points |-> 5],
    [keyword |-> k_curtidas, points |-> 3], [keyword |-> k_likes, points |-> 3] >>

RECURSIVE KeywordScore(_, _)
KeywordScore(text, i) ==
    IF i > Len(ScoreKeywords) THEN 0
    ELSE (IF Contains(text, ScoreKeywords[i].keyword) THEN ScoreKeywords[i].points ELSE 0)
         + KeywordScore(text, i + 1)

\* lines 233-240
NumberPoints(value) ==
    IF value > 1000000 THEN 20
    ELSE IF value > 100000 THEN 15
    ELSE IF value > 10000 THEN 10
    ELSE IF value > 1000 THEN 5
    ELSE 0

RECURSIVE NumberScore(_, _)
NumberScore(numbers, i) ==
    IF i > Len(numbers) THEN 0
    ELSE NumberPoints(numbers[i]) + NumberScore(numbers, i + 1)

Min(a, b) == IF a <= b THEN a ELSE b

\* A mutation of _calculate_initial_score: the final min(score, 100.0) is lost.
InitialScoreUnclamped(result, platform) ==
    LET text_content == TextContent(result) IN
    KeywordScore(text_content, 1) + NumberScore(FindNumbers(text_content), 1)

_calculate_initial_score(result, platform) ==
    LET text_content == TextContent(result)
        score == KeywordScore(text_content, 1)
                 + NumberScore(FindNumbers(text_content), 1)
    IN Min(score, 100)

-----------------------------------------------------------------------------
(* _identify_viral_content, lines 136-163 *)

\* A value of search_results is PyList(results) or something else; a result
\* is PyDict(d) or something else; d["url"], when present, is PyStr(chars) or
\* something else.  title and description, when present, are strings.

\* The (source, result) pairs in the order the two for loops visit them
\* (lines 142-144); a value that is not a list is passed over (line 143).
RECURSIVE Visits(_)
Visits(entries) ==
    IF entries = <<>> THEN <<>>
    ELSE LET e == Head(entries) IN
         (IF e.value.type = "list"
          THEN [i \in 1..Len(e.value.items) |->
                    [source |-> e.source, result |-> e.value.items[i]]]
          ELSE <<>>)
         \o Visits(Tail(entries))

\* line 145
HasUrl(result) == result.type = "dict" /\ "url" \in DOMAIN result.d

\* line 147: url.lower() raises AttributeError on a url that is not a str
ResultRaises(result) == HasUrl(result) /\ result.d.url.type # "str"

\* lines 147-149
Qualifies(result) ==
    /\ HasUrl(result)
    /\ result.d.url.type = "str"
    /\ LET platform == _identify_platform(result.d.url.s) IN
           platform # None /\ _is_potentially_viral(result.d, platform)

\* lines 150-157
Candidate(source, result) ==
    LET platform == _identify_platform(result.d.url.s) IN
    [url |-> result.d.url,
     platform |-> platform,
     source |-> source,
     title |-> Get(result.d, "title", <<>>),
     description |-> Get(result.d, "description", <<>>),
     initial_score |-> _calculate_initial_score(result.d, platform)]

\* The try of line 140 encloses both loops: the first result that raises ends
\* the whole scan (except at line 159) and what was appended so far is returned.
RECURSIVE ScanFrom(_, _)
ScanFrom(visits, viral_content) ==
    IF visits = <<>> THEN viral_content
    ELSE LET v == Head(visits) IN
         IF ResultRaises(v.result) THEN viral_content
         ELSE ScanFrom(Tail(visits),
                       IF Qualifies(v.result)
                       THEN Append(viral_content, Candidate(v.source, v.result))
                       ELSE viral_content)

\* A mutation of _identify_viral_content: the platform test of line 149 is lost.
RECURSIVE ScanNoPlatformTest(_, _)
ScanNoPlatformTest(visits, viral_content) ==
    IF visits = <<>> THEN viral_content
    ELSE LET v == Head(visits) IN
         IF ResultRaises(v.result) THEN viral_content
         ELSE ScanNoPlatformTest(Tail(visits),
                  IF HasUrl(v.result) /\ _is_potentially_viral(v.result.d, None)
                  THEN Append(viral_content, Candidate(v.source, v.result))
                  ELSE viral_content)

IdentifyNoPlatformTest(results) == ScanNoPlatformTest(Visits(results), <<>>)

_identify_viral_content(results) == ScanFrom(Visits(results), <<>>)

-----------------------------------------------------------------------------
(* _calculate_viral_score, lines 422-484 *)

\* A scraped attribute is a number, Num(n), or a value no comparison or sum
\* accepts, PyNone (TypeError).  A float that is not an integer is the exact
\* fraction Frac(num, den).
Num(n)         == [type |-> "num", n |-> n]
PyNone         == [type |-> "NoneType"]
Frac(num, den) == [type |-> "num", num |-> num, den |-> den]
IsNum(v)       == v.type = "num"

\* Python's None where a dict is expected (Optional[Dict])
NoAnalysis == PyNone

\* lines 38-65; engagement_rate 0.05 and 0.03 as fractions
viral_thresholds ==
    [youtube   |-> [min_views |-> 10000, min_likes |-> 500, min_comments |-> 50,
                    engagement_rate |-> Frac(5, 100)],
     instagram |-> [min_likes |-> 1000, min_comments |-> 50,
                    engagement_rate |-> Frac(3, 100)],
     facebook  |-> [min_likes |-> 1000, min_comments |-> 50,
                    engagement_rate |-> Frac(3, 100)],
     twitter   |-> [min_retweets |-> 100, min_likes |-> 500, min_replies |-> 20],
     tiktok    |-> [min_views |-> 50000, min_likes |-> 2000, min_shares |-> 100]]

\* self.viral_thresholds.get(platform, {})
Thresholds(platform) ==
    IF platform \in DOMAIN viral_thresholds THEN viral_thresholds[platform]
    ELSE EmptyDict

\* A mutation of Tier: the thresholds are strict.
TierStrict(v, t, full, half) ==
    IF v > t THEN full ELSE IF 2 * v > t THEN half ELSE 0

\* if v >= t: full  elif v >= t * 0.5: half  (else nothing)
Tier(v, t, full, half) ==
    IF v >= t THEN full ELSE IF 2 * v >= t THEN half ELSE 0

\* if er >= t * 100: full  elif er >= t * 50: half
RateTier(er, t, full, half) ==
    IF er.num * t.den >= t.num * 100 * er.den THEN full
    ELSE IF er.num * t.den >= t.num * 50 * er.den THEN half
    ELSE 0

\* lines 429-456.  The one try of line 426 encloses every term: the first
\* value that raises ends the computation with the score added up so far.
InstagramScore(analysis, thresholds) ==
    LET likes    == Get(analysis, "likes", Num(0))
        comments == Get(analysis, "comments", Num(0))
        engagement_rate == Get(analysis, "engagement_rate", Frac(0, 1))
        hashtags == Get(analysis, "hashtags", PyList(<<>>))
        mentions == Get(analysis, "mentions", PyList(<<>>))
    IN
    IF ~IsNum(likes) THEN 0
    ELSE LET s1 == Tier(likes.n, Get(thresholds, "min_likes", 1000), 30, 15) IN
    IF ~IsNum(comments) THEN s1
    ELSE LET s2 == s1 + Tier(comments.n, Get(thresholds, "min_comments", 50), 20, 10) IN
    IF ~IsNum(engagement_rate) THEN s2
    ELSE LET s3 == s2 + RateTier(engagement_rate,
                                 Get(thresholds, "engagement_rate", Frac(3, 100)),
                                 25, 15) IN
    IF hashtags.type # "list" \/ mentions.type # "list" THEN s3
    ELSE s3 + Min(Len(hashtags.items) * 2, 10) + Min(Len(mentions.items) * 3, 15)

\* lines 458-479
YoutubeScore(analysis, thresholds) ==
    LET views    == Get(analysis, "views", Num(0))
        likes    == Get(analysis, "likes", Num(0))
        comments == Get(analysis, "comments", Num(0))
    IN
    IF ~IsNum(views) THEN 0
    ELSE LET s1 == Tier(views.n, Get(thresholds, "min_views", 10000), 40, 20) IN
    IF ~IsNum(likes) THEN s1
    ELSE LET s2 == s1 + Tier(likes.n, Get(thresholds, "min_likes", 500), 20, 10) IN
    IF ~IsNum(comments) THEN s2
    ELSE s2 + Tier(comments.n, Get(thresholds, "min_comments", 50), 15, 8)

_calculate_viral_score(analysis, platform) ==
    LET thresholds == Thresholds(platform)
        score == IF platform = "instagram" THEN InstagramScore(analysis, thresholds)
                 ELSE IF platform = "youtube" THEN YoutubeScore(analysis, thresholds)
                 ELSE 0
    IN Min(score, 100)

-----------------------------------------------------------------------------
(* Enrichment: _analyze_instagram_post (294-335), _analyze_youtube_video   *)
(* (337-377), _basic_url_analysis (379-396)                                *)

\* What Post(url) and post.scrape() do is the library's and the network's:
\* the call raises, or leaves a post whose attributes are a record.
ScrapeRaises == [type |-> "raises"]
NoScrape == [type |-> "no_scrape"]
Scraped(post) == [type |-> "post", post |-> post]

\* lines 322-325: hasattr(post, 'owner') and hasattr(post.owner, 'followers')
HasFollowers(post) ==
    "owner" \in DOMAIN post /\ "followers" \in DOMAIN post.owner

\* The arithmetic of lines 324-325 raises TypeError on a value that is not a
\* number; the except of line 333 then returns None.
InstagramRaises(post) ==
    /\ HasFollowers(post)
    /\ \/ ~IsNum(post.owner.followers)
       \/ /\ post.owner.followers.n > 0
          /\ \/ ~IsNum(Get(post, "likes", Num(0)))
             \/ ~IsNum(Get(post, "comments", Num(0)))

\* The record's caption, timestamp, owner, is_video and analysis_timestamp are
\* copied or stamped and read by nothing; they are left out.
_analyze_instagram_post(url, content, scrape) ==
    IF scrape.type = "raises" THEN NoAnalysis
    ELSE IF InstagramRaises(scrape.post) THEN NoAnalysis
    ELSE
    LET post == scrape.post
        likes == Get(post, "likes", Num(0))
        comments == Get(post, "comments", Num(0))
        analysis == [url |-> url,
                     platform |-> "instagram",
                     title |-> Get(content, "title", <<>>),
                     likes |-> likes,
                     comments |-> comments,
                     hashtags |-> Get(post, "hashtags", PyList(<<>>)),
                     mentions |-> Get(post, "mentions", PyList(<<>>)),
                     engagement_rate |->
                         IF HasFollowers(post) /\ post.owner.followers.n > 0
                         THEN Frac((likes.n + comments.n) * 100, post.owner.followers.n)
                         ELSE Frac(0, 1),
                     viral_score |-> 0]
    IN [analysis EXCEPT !.viral_score = _calculate_viral_score(analysis, "instagram")]

u_million  == <<"m","i","l","l","i","o","n">>
u_milhao   == <<"m","i","l","h","a~","o">>
u_mil      == <<"m","i","l">>
u_k        == <<"k">>
u_thousand == <<"t","h","o","u","s","a","n","d">>

\* the alternatives of the pattern of line 357, in its order
Units == <<u_million, u_milhao, u_mil, u_k, u_thousand>>

IsSpace(c) == c \in {" ", "\t", "\n"}

RECURSIVE DigitsEnd(_, _)
\* first position at or after i that holds no digit
DigitsEnd(s, i) == IF i <= Len(s) /\ IsDigit(s[i]) THEN DigitsEnd(s, i + 1) ELSE i

RECURSIVE SpacesEnd(_, _)
SpacesEnd(s, i) == IF i <= Len(s) /\ IsSpace(s[i]) THEN SpacesEnd(s, i + 1) ELSE i

UnitAt(s, i) ==
    \E u \in 1..Len(Units) :
        /\ i + Len(Units[u]) - 1 <= Len(s)
        /\ SubSeq(s, i, i + Len(Units[u]) - 1) = Units[u]

\* (\d+(?:\.\d+)?)\s*(?:million|milhão|mil|k|thousand) tried at position i:
\* the end of the captured group, or 0 when there is no match at i
MatchAt(s, i) ==
    LET j == DigitsEnd(s, i)
        k == IF j < Len(s) /\ s[j] = "." /\ IsDigit(s[j + 1])
             THEN DigitsEnd(s, j + 1) ELSE j
    IN IF j = i THEN 0
       ELSE IF UnitAt(s, SpacesEnd(s, k)) THEN k
       ELSE IF k # j /\ UnitAt(s, SpacesEnd(s, j)) THEN j
       ELSE 0

RECURSIVE Digits(_, _)
\* int(s) of a run of digits
Digits(s, acc) ==
    IF s = <<>> THEN acc ELSE Digits(Tail(s), 10 * acc + DigitVal(Head(s)))

RECURSIVE Pow10(_)
Pow10(n) == IF n = 0 THEN 1 ELSE 10 * Pow10(n - 1)

\* int(float(num_str) * mult) for the captured group s[i..k-1]
Scaled(s, i, k, mult) ==
    LET j == DigitsEnd(s, i)
        whole == Digits(SubSeq(s, i, j - 1), 0)
        fracDigits == IF j < k THEN SubSeq(s, j + 1, k - 1) ELSE <<>>
    IN whole * mult + (Digits(fracDigits, 0) * mult) \div Pow10(Len(fracDigits))

\* lines 356-371: the first match only; the multiplier is chosen by what the
\* whole text contains, 'million' or 'milhão' first
ParseViews(text_content) ==
    LET t == Lower(text_content)
        starts == {i \in 1..Len(t) : MatchAt(t, i) # 0}
    IN IF starts = {} THEN 0
       ELSE LET i == CHOOSE x \in starts : \A y \in starts : x <= y
                mult == IF Contains(t, u_million) \/ Contains(t, u_milhao)
                        THEN 1000000
                        ELSE IF Contains(t, u_mil) \/ Contains(t, u_k)
                                \/ Contains(t, u_thousand)
                        THEN 1000
                        ELSE 1
            IN Scaled(t, i, MatchAt(t, i), mult)

_analyze_youtube_video(url, content) ==
    LET title == Get(content, "title", <<>>)
        description == Get(content, "description", <<>>)
    IN [url |-> url,
        platform |-> "youtube",
        title |-> title,
        description |-> description,
        views |-> Num(ParseViews(title \o <<" ">> \o description)),
        likes |-> Num(0),
        comments |-> Num(0),
        engagement_rate |-> Frac(0, 1),
        viral_score |-> Get(content, "initial_score", 0),
        analysis_method |-> "basic_fallback"]

\* A mutation of _basic_url_analysis: the score is not carried over.
BasicAnalysisScoreDropped(url, content) ==
    [url |-> url,
     platform |-> Get(content, "platform", "other"),
     title |-> Get(content, "title", <<>>),
     description |-> Get(content, "description", <<>>),
     viral_score |-> 0,
     analysis_method |-> "basic_fallback"]

_basic_url_analysis(url, content) ==
    [url |-> url,
     platform |-> Get(content, "platform", "other"),
     title |-> Get(content, "title", <<>>),
     description |-> Get(content, "description", <<>>),
     viral_score |-> Get(content, "initial_score", 0),
     analysis_method |-> "basic_fallback"]

-----------------------------------------------------------------------------
(* Aggregation: _calculate_viral_metrics (486-531), _get_top_performers    *)
(* (533-552), _generate_engagement_insights (554-602)                      *)

\* the keys of platform_analysis in insertion order (lines 249-256, 400-407)
PlatformOrder == <<"instagram", "youtube", "facebook", "twitter", "tiktok", "other">>

EmptyAnalysis == [p \in {PlatformOrder[i] : i \in 1..Len(PlatformOrder)} |-> <<>>]

RECURSIVE Sum(_)
Sum(seq) == IF seq = <<>> THEN 0 ELSE Head(seq) + Sum(Tail(seq))

\* for platform, content_list in platform_analysis.items(): ... for content in
\* content_list: the (platform, content) pairs in the order they are visited
RECURSIVE AllPairs(_, _)
AllPairs(pa, i) ==
    IF i > Len(PlatformOrder) THEN <<>>
    ELSE [j \in 1..Len(pa[PlatformOrder[i]]) |->
              [platform |-> PlatformOrder[i], content |-> pa[PlatformOrder[i]][j]]]
         \o AllPairs(pa, i + 1)

\* all_content.extend(content_list) over the mapping
AllContent(pa) == LET ps == AllPairs(pa, 1) IN [i \in 1..Len(ps) |-> ps[i].content]

\* A mutation of MetricsStep: a score of exactly 50 is not counted as viral.
MetricsStepStrict(acc, pair) ==
    LET content == pair.content
        viral_score == Get(content, "viral_score", 0)
        likes    == Get(content, "likes", Num(0))
    IN [acc EXCEPT !.seen = @ \cup {pair.platform},
                   !.viral_scores = Append(@, viral_score),
                   !.viral_content_count = IF viral_score > 50 THEN @ + 1 ELSE @,
                   !.total_likes = IF IsNum(likes) THEN @ + likes.n ELSE @,
                   !.fault = ~IsNum(likes)]

\* lines 510-521 for one content.  acc.fault is set by the first += that
\* raises TypeError; what was added before it stays added.
MetricsStep(acc, pair) ==
    LET content == pair.content
        viral_score == Get(content, "viral_score", 0)
        likes    == Get(content, "likes", Num(0))
        comments == Get(content, "comments", Num(0))
        shares   == Get(content, "shares", Num(0))
        views    == Get(content, "views", Num(0))
        a0 == [acc EXCEPT !.seen = @ \cup {pair.platform},
                          !.viral_scores = Append(@, viral_score),
                          !.viral_content_count = IF viral_score >= 50 THEN @ + 1 ELSE @]
    IN
    IF ~IsNum(likes) THEN [a0 EXCEPT !.fault = TRUE]
    ELSE LET a1 == [a0 EXCEPT !.total_likes = @ + likes.n] IN
    IF ~IsNum(comments) THEN [a1 EXCEPT !.fault = TRUE]
    ELSE LET a2 == [a1 EXCEPT !.total_comments = @ + comments.n] IN
    IF ~IsNum(shares) THEN [a2 EXCEPT !.fault = TRUE]
    ELSE LET a3 == [a2 EXCEPT !.total_shares = @ + shares.n] IN
    IF ~IsNum(views) THEN [a3 EXCEPT !.fault = TRUE]
    ELSE [a3 EXCEPT !.total_views = @ + views.n]

RECURSIVE MetricsFold(_, _)
MetricsFold(acc, pairs) ==
    IF pairs = <<>> \/ acc.fault THEN acc
    ELSE MetricsFold(MetricsStep(acc, Head(pairs)), Tail(pairs))

\* The try of line 501 encloses the whole computation: after a fault the
\* lines 523-526 are not run.
_calculate_viral_metrics(pa) ==
    LET acc == MetricsFold([seen |-> {}, viral_scores |-> <<>>,
                            viral_content_count |-> 0, total_likes |-> 0,
                            total_comments |-> 0, total_shares |-> 0,
                            total_views |-> 0, fault |-> FALSE],
                           AllPairs(pa, 1))
    IN [total_content_analyzed |-> IF acc.fault THEN 0 ELSE Len(AllContent(pa)),
        viral_content_count |-> acc.viral_content_count,
        average_viral_score |->
            IF acc.fault \/ acc.viral_scores = <<>> THEN Frac(0, 1)
            ELSE Frac(Sum(acc.viral_scores), Len(acc.viral_scores)),
        platform_distribution |-> [p \in acc.seen |-> Len(pa[p])],
        engagement_totals |-> [total_likes |-> acc.total_likes,
                               total_comments |-> acc.total_comments,
                               total_shares |-> acc.total_shares,
                               total_views |-> acc.total_views]]

ScoreKey(x) == Get(x, "viral_score", 0)

\* sorted(..., key, reverse=True) is stable: of two items with equal keys the
\* one that came first stays first.
RECURSIVE InsertDesc(_, _)
InsertDesc(sorted, x) ==
    IF sorted = <<>> THEN <<x>>
    ELSE IF ScoreKey(Head(sorted)) >= ScoreKey(x)
         THEN <<Head(sorted)>> \o InsertDesc(Tail(sorted), x)
         ELSE <<x>> \o sorted

RECURSIVE SortedDesc(_, _)
SortedDesc(done, rest) ==
    IF rest = <<>> THEN done
    ELSE SortedDesc(InsertDesc(done, Head(rest)), Tail(rest))

\* seq[:n] for n >= 0
Prefix(seq, n) == SubSeq(seq, 1, Min(n, Len(seq)))

\* A mutation of _get_top_performers: the sort is ascending (reverse=True lost).
RECURSIVE InsertAsc(_, _)
InsertAsc(sorted, x) ==
    IF sorted = <<>> THEN <<x>>
    ELSE IF ScoreKey(Head(sorted)) <= ScoreKey(x)
         THEN <<Head(sorted)>> \o InsertAsc(Tail(sorted), x)
         ELSE <<x>> \o sorted

RECURSIVE SortedAsc(_, _)
SortedAsc(done, rest) ==
    IF rest = <<>> THEN done
    ELSE SortedAsc(InsertAsc(done, Head(rest)), Tail(rest))

TopPerformersAscending(pa, top_n) == Prefix(SortedAsc(<<>>, AllContent(pa)), top_n)

_get_top_performers(pa, top_n) == Prefix(SortedDesc(<<>>, AllContent(pa)), top_n)

\* lines 573-576: sum(likes + comments + shares) over one platform's list;
\* -1 when an addend is not a number (TypeError)
RECURSIVE EngagementSum(_)
EngagementSum(content_list) ==
    IF content_list = <<>> THEN 0
    ELSE LET c == Head(content_list)
             rest == EngagementSum(Tail(content_list))
         IN IF /\ IsNum(Get(c, "likes", Num(0)))
               /\ IsNum(Get(c, "comments", Num(0)))
               /\ IsNum(Get(c, "shares", Num(0)))
               /\ rest # -1
            THEN Get(c, "likes", Num(0)).n + Get(c, "comments", Num(0)).n
                 + Get(c, "shares", Num(0)).n + rest
            ELSE -1

\* the non-empty platforms in insertion order (lines 567-568)
NonEmptyPlatforms(pa) ==
    SelectSeq(PlatformOrder, LAMBDA p : pa[p] # <<>>)

\* the first platform of the loop whose engagement sum raises, or 0
FirstEngagementFault(pa) ==
    LET ps == NonEmptyPlatforms(pa)
        bad == {i \in 1..Len(ps) : EngagementSum(pa[ps[i]]) = -1}
    IN IF bad = {} THEN 0 ELSE CHOOSE i \in bad : \A j \in bad : i <= j

MeanScore(content_list) ==
    Frac(Sum([i \in 1..Len(content_list) |-> ScoreKey(content_list[i])]),
         Len(content_list))

\* max(platform_scores, key=platform_scores.get): the first of the largest
BestPlatform(pa) ==
    LET ps == NonEmptyPlatforms(pa)
        Less(a, b) == a.num * b.den < b.num * a.den
        best == CHOOSE i \in 1..Len(ps) :
                    /\ \A j \in 1..Len(ps) : ~Less(MeanScore(pa[ps[i]]), MeanScore(pa[ps[j]]))
                    /\ \A j \in 1..(i - 1) : Less(MeanScore(pa[ps[j]]), MeanScore(pa[ps[i]]))
    IN IF ps = <<>> THEN "" ELSE ps[best]

\* lines 587-590: every hashtag of every Instagram record, in order; iterating
\* a hashtags value that is not a list raises
RECURSIVE HashtagStream(_)
HashtagStream(instagram_content) ==
    IF instagram_content = <<>> THEN <<>>
    ELSE Get(Head(instagram_content), "hashtags", PyList(<<>>)).items
         \o HashtagStream(Tail(instagram_content))

HashtagFault(instagram_content) ==
    \E i \in 1..Len(instagram_content) :
        Get(instagram_content[i], "hashtags", PyList(<<>>)).type # "list"

RECURSIVE FirstSeen(_, _)
\* the distinct elements of a sequence in the order of their first occurrence
FirstSeen(seq, seen) ==
    IF seq = <<>> THEN <<>>
    ELSE IF Head(seq) \in seen THEN FirstSeen(Tail(seq), seen)
    ELSE <<Head(seq)>> \o FirstSeen(Tail(seq), seen \cup {Head(seq)})

CountOf(x, seq) == Cardinality({i \in 1..Len(seq) : seq[i] = x})

RECURSIVE InsertByCount(_, _)
InsertByCount(sorted, x) ==
    IF sorted = <<>> THEN <<x>>
    ELSE IF Head(sorted)[2] >= x[2]
         THEN <<Head(sorted)>> \o InsertByCount(Tail(sorted), x)
         ELSE <<x>> \o sorted

RECURSIVE SortedByCount(_, _)
SortedByCount(done, rest) ==
    IF rest = <<>> THEN done
    ELSE SortedByCount(InsertByCount(done, Head(rest)), Tail(rest))

\* lines 593-597
HashtagInsights(instagram_content) ==
    LET stream == HashtagStream(instagram_content)
        tags == FirstSeen(stream, {})
        counts == [i \in 1..Len(tags) |-> <<tags[i], CountOf(tags[i], stream)>>]
    IN [top_hashtags |-> Prefix(SortedByCount(<<>>, counts), 10),
        total_unique_hashtags |-> Len(tags)]

\* The try of line 564 encloses the whole computation: a fault leaves the
\* insights as filled so far.
_generate_engagement_insights(pa) ==
    LET ps == NonEmptyPlatforms(pa)
        f == FirstEngagementFault(pa)
        upto == IF f = 0 THEN Len(ps) ELSE f - 1
        average == [p \in {ps[i] : i \in 1..upto} |->
                        Frac(EngagementSum(pa[p]), Len(pa[p]))]
    IN [best_performing_platform |-> IF f = 0 THEN BestPlatform(pa) ELSE "",
        average_engagement_by_platform |-> average,
        content_type_insights |-> EmptyDict,
        hashtag_insights |->
            IF f = 0 /\ ~HashtagFault(pa.instagram)
            THEN HashtagInsights(pa.instagram) ELSE EmptyDict,
        timing_insights |-> EmptyDict]

-----------------------------------------------------------------------------
(* Inputs *)

url_ig1 == <<"h","t","t","p","s",":","/","/","i","n","s","t","a","g","r","a",
    "m",".","c","o","m","/","p","/","1">>
url_ig2 == <<"h","t","t","p","s",":","/","/","w","w","w",".","I","n","s","t",
    "a","g","r","a","m",".","c","o","m","/","p","/","2">>
url_yt == <<"h","t","t","p","s",":","/","/","y","o","u","t","u",".","b","e",
    "/","x">>
url_x == <<"h","t","t","p","s",":","/","/","x",".","c","o","m","/","a">>
url_li == <<"h","t","t","p","s",":","/","/","l","i","n","k","e","d","i","n",
    ".","c","o","m","/","i","n","/","b">>
url_other == <<"h","t","t","p","s",":","/","/","e","x","a","m","p","l","e",
    ".","o","r","g","/","c">>
t_scenario == <<"v","i","d","e","o"," ","v","i","r","a","l"," ","c","o","m",
    " ","2","0","0","0","0","0","0"," ","v","i","s","u","a","l","i","z","a",
    "c,","o~","e","s">>
t_viral == <<"V","i","r","a","l">>
t_yt == <<"1","0"," ","m","i","l","l","i","o","n"," ","v","i","e","w","s"," ",
    "v","i","d","e","o">>
t_all == <<"v","i","r","a","l"," ","t","r","e","n","d","i","n","g"," ","p",
    "o","p","u","l","a","r"," ","m","i","l","l","i","o","n","s"," ","m","i",
    "l","h","o~","e","s">>
t_numbers == <<"9","9","9","9","9","9","9"," ","8","8","8","8","8","8","8",
    " ","7","7","7","7","7","7","7">>
t_likes == <<"l","i","k","e","s"," ","1","5","0","0">>
t_dull == <<"c","a","t"," ","1","0","0","0">>

\* search results of every shape the filter tells apart
r_ig1     == PyDict([url |-> PyStr(url_ig1), title |-> t_scenario])
r_ig2     == PyDict([url |-> PyStr(url_ig2), title |-> t_viral])
r_yt      == PyDict([url |-> PyStr(url_yt), title |-> t_yt])
r_x       == PyDict([url |-> PyStr(url_x), title |-> t_all, description |-> t_numbers])
r_li      == PyDict([url |-> PyStr(url_li), description |-> t_likes])
r_dull    == PyDict([url |-> PyStr(url_ig1), title |-> t_dull])
r_other   == PyDict([url |-> PyStr(url_other), title |-> t_viral])
r_nourl   == PyDict([title |-> t_viral])
r_notdict == PyStr(t_viral)
r_badurl  == PyDict([url |-> PyInt, title |-> t_viral])

Results == {r_ig1, r_ig2, r_yt, r_x, r_li, r_dull, r_other, r_nourl, r_notdict, r_badurl}

\* at most this many results in one search_results mapping
MaxResults == 2

SeqsUpTo(S, n) == UNION {[1..k -> S] : k \in 0..n}

\* the mappings {"google": l1, "social": v2} over the results R, v2 being a
\* list or, when withDict, a dict
SearchInputsOver(R, withDict) ==
    {<<[source |-> "google", value |-> PyList(x[1])],
       [source |-> "social", value |-> x[2]]>> :
        x \in {<<y[1], PyList(y[2])>> :
                  y \in {z \in SeqsUpTo(R, MaxResults) \X SeqsUpTo(R, MaxResults) :
                            Len(z[1]) + Len(z[2]) <= MaxResults}}
              \cup (IF withDict
                    THEN {<<a, PyDict(EmptyDict)>> : a \in SeqsUpTo(R, MaxResults)}
                    ELSE {})}

\* the filter is applied to every shape; a whole run gets the shapes that
\* reach the enrichment or cut the scan short
FilterInputs == SearchInputsOver(Results, TRUE)
SearchInputs == SearchInputsOver({r_ig1, r_ig2, r_yt, r_x, r_li, r_badurl}, FALSE)

\* the default of max_captures, line 83
DefaultMaxCaptures == 15

\* the largest other cap tried
MaxCap == 2

\* max_captures: a count, or a value no slice accepts (TypeError at line 110)
CaptureInputs ==
    {Num(n) : n \in 0..MaxCap} \cup {Num(DefaultMaxCaptures), PyStr(<<"1", "5">>)}

tags5 == PyList(<<"a", "b", "c", "d", "e">>)

\* what a scrape can leave behind
Posts == {
    EmptyDict,
    [likes |-> Num(2000), comments |-> Num(100), hashtags |-> tags5,
     mentions |-> PyList(<<"m", "n">>), owner |-> [followers |-> Num(42000)]],
    [likes |-> Num(1000), comments |-> Num(50), hashtags |-> tags5,
     mentions |-> tags5, owner |-> [followers |-> Num(1000)]],
    [likes |-> Num(500), comments |-> Num(25), hashtags |-> PyList(<<"a">>),
     owner |-> [followers |-> Num(35000)]],
    [likes |-> PyNone, comments |-> Num(60)],
    [likes |-> Num(10), owner |-> [followers |-> PyNone]] }

ScrapeOutcomes == {ScrapeRaises} \cup {Scraped(p) : p \in Posts}

-----------------------------------------------------------------------------
(* analyze_and_capture_viral_content, lines 79-134, and what it awaits *)

SessionId == "s1"

\* the variables only a function applied on its own uses
Idle == arg = None /\ ret = None

Init ==
    /\ pc = "idle"
    /\ HAS_INSTASCRAPE \in BOOLEAN
    /\ search_results = <<>>
    /\ max_captures = PyNone
    /\ analysis_results = EmptyDict
    /\ viral_urls = <<>>
    /\ idx = 0
    /\ platform_analysis = EmptyDict
    /\ clock = 0
    /\ files = {}
    /\ outcomes = <<>>
    /\ Idle

\* lines 87-105: the call, the fresh result dict, FASE 1
Analyze ==
    /\ pc = "idle"
    /\ \E sr \in SearchInputs :
        LET viral_content == _identify_viral_content(sr) IN
        \E mc \in CaptureInputs :
        /\ search_results' = sr
        /\ max_captures' = mc
        /\ analysis_results' =
               [session_id |-> SessionId,
                analysis_started |-> clock,
                viral_content_identified |-> viral_content,
                screenshots_captured |-> <<>>,
                viral_metrics |-> EmptyDict,
                platform_analysis |-> EmptyDict,
                top_performers |-> <<>>,
                engagement_insights |-> EmptyDict]
    /\ pc' = "phase2"
    /\ UNCHANGED <<HAS_INSTASCRAPE, viral_urls, idx, platform_analysis, clock,
                   files, outcomes, arg, ret>>

\* A mutation of SliceRaises: the except clause of line 129 is lost and the
\* TypeError leaves analyze.
SliceRaisesUncaught ==
    /\ pc = "phase2"
    /\ ~IsNum(max_captures)
    /\ pc' = "raised"
    /\ UNCHANGED <<HAS_INSTASCRAPE, search_results, max_captures, analysis_results,
                   viral_urls, idx, platform_analysis, clock, files, outcomes, arg, ret>>

\* A mutation of SliceRaises: the result is saved on the way out (a finally).
SliceRaisesThenSaves ==
    /\ pc = "phase2"
    /\ ~IsNum(max_captures)
    /\ analysis_results' = [error |-> "TypeError", success |-> FALSE] @@ analysis_results
    /\ files' = {[name |-> <<"viral_analysis", analysis_results.session_id, clock>>,
                  complete |-> TRUE,
                  results |-> analysis_results']}
    /\ pc' = "returned"
    /\ UNCHANGED <<HAS_INSTASCRAPE, search_results, max_captures, viral_urls, idx,
                   platform_analysis, clock, outcomes, arg, ret>>

\* line 110, viral_urls[:max_captures] raises TypeError; lines 129-134
SliceRaises ==
    /\ pc = "phase2"
    /\ ~IsNum(max_captures)
    /\ analysis_results' = [error |-> "TypeError", success |-> FALSE] @@ analysis_results
    /\ pc' = "returned"
    /\ UNCHANGED <<HAS_INSTASCRAPE, search_results, max_captures, viral_urls, idx,
                   platform_analysis, clock, files, outcomes, arg, ret>>

\* A mutation of EnterEnrichment: the [:max_captures] of line 110 is lost.
EnterEnrichmentUncapped ==
    /\ pc = "phase2"
    /\ IsNum(max_captures)
    /\ viral_urls' = analysis_results.viral_content_identified
    /\ platform_analysis' = [p \in {"instagram", "youtube", "facebook", "twitter",
                                     "tiktok", "other"} |-> <<>>]
    /\ idx' = 0
    /\ pc' = IF HAS_INSTASCRAPE THEN "loop" ELSE "fallback"
    /\ UNCHANGED <<HAS_INSTASCRAPE, search_results, max_captures, analysis_results,
                   clock, files, outcomes, arg, ret>>

\* line 110 and lines 249-260: the slice, the empty mapping, the choice of loop
EnterEnrichment ==
    /\ pc = "phase2"
    /\ IsNum(max_captures)
    /\ viral_urls' = Prefix(analysis_results.viral_content_identified, max_captures.n)
    /\ platform_analysis' = EmptyAnalysis
    /\ idx' = 0
    /\ pc' = IF HAS_INSTASCRAPE THEN "loop" ELSE "fallback"
    /\ UNCHANGED <<HAS_INSTASCRAPE, search_results, max_captures, analysis_results,
                   clock, files, outcomes, arg, ret>>

\* platform_analysis.get(platform, platform_analysis['other']).append(analysis)
Bucket(platform) == IF platform \in DOMAIN EmptyAnalysis THEN platform ELSE "other"

\* if analysis: <bucket>.append(analysis)
Filed(pa, bucket, analysis) ==
    IF analysis = NoAnalysis THEN pa
    ELSE [pa EXCEPT ![bucket] = Append(@, analysis)]

\* lines 262-272: one Instagram candidate
EnrichInstagram ==
    /\ pc = "loop"
    /\ idx < Len(viral_urls)
    /\ LET content == viral_urls[idx + 1] IN
        /\ content.platform = "instagram"
        /\ \E scrape \in ScrapeOutcomes :
            LET analysis == _analyze_instagram_post(content.url, content, scrape) IN
            /\ platform_analysis' = Filed(platform_analysis, "instagram", analysis)
            /\ outcomes' = Append(outcomes, scrape)
    /\ idx' = idx + 1
    /\ pc' = "sleep"
    /\ UNCHANGED <<HAS_INSTASCRAPE, search_results, max_captures, analysis_results,
                   viral_urls, clock, files, arg, ret>>

\* lines 274-277: one YouTube candidate
EnrichYoutube ==
    /\ pc = "loop"
    /\ idx < Len(viral_urls)
    /\ LET content == viral_urls[idx + 1] IN
        /\ content.platform = "youtube"
        /\ platform_analysis' =
               Filed(platform_analysis, "youtube",
                     _analyze_youtube_video(content.url, content))
    /\ outcomes' = Append(outcomes, NoScrape)
    /\ idx' = idx + 1
    /\ pc' = "sleep"
    /\ UNCHANGED <<HAS_INSTASCRAPE, search_results, max_captures, analysis_results,
                   viral_urls, clock, files, arg, ret>>

\* lines 279-283: one candidate of another platform
EnrichOther ==
    /\ pc = "loop"
    /\ idx < Len(viral_urls)
    /\ LET content == viral_urls[idx + 1] IN
        /\ content.platform \notin {"instagram", "youtube"}
        /\ platform_analysis' =
               Filed(platform_analysis, Bucket(content.platform),
                     _basic_url_analysis(content.url, content))
    /\ outcomes' = Append(outcomes, NoScrape)
    /\ idx' = idx + 1
    /\ pc' = "sleep"
    /\ UNCHANGED <<HAS_INSTASCRAPE, search_results, max_captures, analysis_results,
                   viral_urls, clock, files, arg, ret>>

\* A mutation of Sleep: the pause of line 286 is lost.
SleepSkipped ==
    /\ pc = "sleep"
    /\ pc' = "loop"
    /\ UNCHANGED <<HAS_INSTASCRAPE, search_results, max_captures, analysis_results,
                   viral_urls, idx, platform_analysis, clock, files, outcomes, arg, ret>>

\* line 286: await asyncio.sleep(1)
Sleep ==
    /\ pc = "sleep"
    /\ clock' = clock + 1
    /\ pc' = "loop"
    /\ UNCHANGED <<HAS_INSTASCRAPE, search_results, max_captures, analysis_results,
                   viral_urls, idx, platform_analysis, files, outcomes, arg, ret>>

\* lines 409-414: one candidate of _basic_analysis_fallback
FallbackItem ==
    /\ pc = "fallback"
    /\ idx < Len(viral_urls)
    /\ LET content == viral_urls[idx + 1] IN
        platform_analysis' =
            Filed(platform_analysis, Bucket(Get(content, "platform", "other")),
                  _basic_url_analysis(content.url, content))
    /\ outcomes' = Append(outcomes, NoScrape)
    /\ idx' = idx + 1
    /\ UNCHANGED <<pc, HAS_INSTASCRAPE, search_results, max_captures,
                   analysis_results, viral_urls, clock, files, arg, ret>>

\* the top_n default of line 533
DefaultTopN == 10

\* lines 111-122: the loop is over; FASE 3
Aggregate ==
    /\ pc \in {"loop", "fallback"}
    /\ idx = Len(viral_urls)
    /\ analysis_results' =
           [analysis_completed |-> clock, success |-> TRUE] @@
           [analysis_results EXCEPT
                !.platform_analysis = platform_analysis,
                !.viral_metrics = _calculate_viral_metrics(platform_analysis),
                !.top_performers = _get_top_performers(platform_analysis, DefaultTopN),
                !.engagement_insights = _generate_engagement_insights(platform_analysis)]
    /\ pc' = "save"
    /\ UNCHANGED <<HAS_INSTASCRAPE, search_results, max_captures, viral_urls, idx,
                   platform_analysis, clock, files, outcomes, arg, ret>>

\* f"viral_analysis_{session_id}_{now:%Y%m%d_%H%M%S}.json", line 607
FileName(session_id, now) == <<"viral_analysis", session_id, now>>

\* What open() and json.dump() do is the file system's: the file is written
\* whole, or open() raises and there is no file, or the dump raises after
\* open() created the file.  Either exception is swallowed at line 615.
WriteOutcomes == {"written", "open_raises", "dump_raises"}

\* lines 125 and 604-616, then the return of line 134
_save_analysis_results ==
    /\ pc = "save"
    /\ \E outcome \in WriteOutcomes :
        files' =
            IF outcome = "open_raises" THEN files
            ELSE {f \in files : f.name # FileName(analysis_results.session_id, clock)}
                 \cup {[name |-> FileName(analysis_results.session_id, clock),
                        complete |-> outcome = "written",
                        results |-> analysis_results]}
    /\ pc' = "returned"
    /\ UNCHANGED <<HAS_INSTASCRAPE, search_results, max_captures, analysis_results,
                   viral_urls, idx, platform_analysis, clock, outcomes, arg, ret>>

Next ==
    \/ Analyze
    \/ SliceRaises
    \/ EnterEnrichment
    \/ EnrichInstagram
    \/ EnrichYoutube
    \/ EnrichOther
    \/ Sleep
    \/ FallbackItem
    \/ Aggregate
    \/ _save_analysis_results

Spec == Init /\ [][Next]_vars

-----------------------------------------------------------------------------
(* The functions applied on their own *)

\* the variables of a run, at rest
AtRest ==
    /\ HAS_INSTASCRAPE = TRUE
    /\ search_results = <<>>
    /\ max_captures = PyNone
    /\ analysis_results = EmptyDict
    /\ viral_urls = <<>>
    /\ idx = 0
    /\ platform_analysis = EmptyDict
    /\ clock = 0
    /\ files = {}
    /\ outcomes = <<>>

RunVars == <<HAS_INSTASCRAPE, search_results, max_captures, analysis_results,
             viral_urls, idx, platform_analysis, clock, files, outcomes>>

p_scheme == <<"H","T","T","P","S",":","/","/">>
p_ig_upper == <<"I","n","s","t","a","g","r","a","m",".","C","O","M">>
p_yt_upper == <<"Y","O","U","T","U",".","B","E">>
p_path == <<"/","p","/","1">>
p_netfli == <<"n","e","t","f","l","i">>
p_example == <<"e","x","a","m","p","l","e",".","o","r","g">>
p_fb_dot == <<"f","b",".","c">>

UrlPieces == {s_instagram_com, s_youtube_com, s_youtu_be, s_facebook_com, s_fb_com,
              s_twitter_com, s_x_com, s_tiktok_com, s_linkedin_com,
              p_scheme, p_ig_upper, p_yt_upper, p_path, p_netfli, p_example, p_fb_dot}

\* a URL is at most this many pieces
MaxPieces == 2

UrlInputs == {Concat(ps) : ps \in SeqsUpTo(UrlPieces, MaxPieces)}

InitClassify == pc = "idle" /\ arg \in UrlInputs /\ ret = None /\ AtRest

Classify ==
    /\ pc = "idle"
    /\ ret' = _identify_platform(arg)
    /\ pc' = "classified"
    /\ UNCHANGED <<arg, RunVars>>

SpecClassify == InitClassify /\ [][Classify]_vars

InitFilter == pc = "idle" /\ arg \in FilterInputs /\ ret = None /\ AtRest

Filter ==
    /\ pc = "idle"
    /\ ret' = _identify_viral_content(arg)
    /\ pc' = "filtered"
    /\ UNCHANGED <<arg, RunVars>>

SpecFilter == InitFilter /\ [][Filter]_vars

\* a mapping holds at most this many records
MaxItems == 3

\* the largest top_n tried besides the default
MaxTopN == 2

\* a record is told from the others by its url; viral_score may be missing
ItemScores == {0, 50, 100}
ItemShapes == {x \in [bucket : {"instagram", "youtube", "other"}, has : BOOLEAN,
                      viral_score : ItemScores] : ~x.has => x.viral_score = 0}

\* the mapping whose records are filed in the order given
MappingOf(shapes) ==
    [p \in DOMAIN EmptyAnalysis |->
        LET mine == SelectSeq([i \in 1..Len(shapes) |-> [i |-> i, shape |-> shapes[i]]],
                              LAMBDA x : x.shape.bucket = p)
        IN [k \in 1..Len(mine) |->
               IF mine[k].shape.has
               THEN [url |-> mine[k].i, viral_score |-> mine[k].shape.viral_score]
               ELSE [url |-> mine[k].i]]]

TopInputs ==
    {[pa |-> m, top_n |-> n] :
        m \in {MappingOf(shapes) : shapes \in SeqsUpTo(ItemShapes, MaxItems)},
        n \in (0..MaxTopN) \cup {DefaultTopN}}

InitTop == pc = "idle" /\ arg \in TopInputs /\ ret = None /\ AtRest

Top ==
    /\ pc = "idle"
    /\ ret' = _get_top_performers(arg.pa, arg.top_n)
    /\ pc' = "ranked"
    /\ UNCHANGED <<arg, RunVars>>

SpecTop == InitTop /\ [][Top]_vars

\* the values tried for a field of an Instagram record, around the thresholds
\* of lines 45-49 and their halves
ScoreLikes    == {Num(0), Num(499), Num(500), Num(999), Num(1000), Num(2000)}
ScoreComments == {Num(0), Num(24), Num(25), Num(49), Num(50), Num(100)}
ScoreRates    == {Frac(0, 1), Frac(149, 100), Frac(3, 2), Frac(299, 100), Frac(3, 1),
                  Frac(5, 1)}

\* hashtags and mentions lists hold at most this many entries
MaxTags == 6

TagList(n) == PyList([i \in 1..n |-> "t"])
TagLists   == {TagList(n) : n \in 0..MaxTags}

\* a key the record does not have
Absent == [type |-> "absent"]

\* the record {key: v}, or {} when the key is absent
With(key, v) == IF v.type = "absent" THEN EmptyDict ELSE key :> v

\* a field holds one of its values, a value that is unusable (None), or is absent
FieldValues(S) == S \cup {Absent, PyNone}

InstagramRecords ==
    {With("likes", l) @@ With("comments", c) @@ With("engagement_rate", e)
         @@ With("hashtags", h) @@ With("mentions", m) :
       l \in FieldValues(ScoreLikes), c \in FieldValues(ScoreComments),
       e \in FieldValues(ScoreRates), h \in FieldValues(TagLists),
       m \in FieldValues(TagLists)}

\* around the thresholds of lines 39-44 and their halves
YoutubeRecords ==
    {With("views", v) @@ With("likes", l) @@ With("comments", c) :
       v \in FieldValues({Num(0), Num(4999), Num(5000), Num(10000)}),
       l \in FieldValues({Num(249), Num(250), Num(500)}),
       c \in FieldValues({Num(24), Num(25), Num(50)})}

ScoreInputs ==
    {[analysis |-> a, platform |-> "instagram"] : a \in InstagramRecords}
    \cup {[analysis |-> a, platform |-> "youtube"] : a \in YoutubeRecords}
    \cup {[analysis |-> [likes |-> Num(5000)], platform |-> "tiktok"]}

InitScore == pc = "idle" /\ arg \in ScoreInputs /\ ret = None /\ AtRest

Score ==
    /\ pc = "idle"
    /\ ret' = _calculate_viral_score(arg.analysis, arg.platform)
    /\ pc' = "scored"
    /\ UNCHANGED <<arg, RunVars>>

SpecScore == InitScore /\ [][Score]_vars

\* a mapping given to the aggregation holds at most this many records
MaxRecords == 3

\* a record of the mapping: its bucket, its viral_score (49, 50, or the key is
\* not there), and its likes: a number or a value no sum accepts
MetricShapes ==
    {[bucket |-> b, has |-> v # 0, viral_score |-> v, likes |-> l] :
        b \in {"instagram", "other"}, v \in {0, 49, 50},
        l \in {Num(7), PyNone}}

MetricRecord(shape) ==
    (IF shape.has THEN "viral_score" :> shape.viral_score ELSE EmptyDict)
    @@ With("likes", shape.likes)

\* the mapping whose records are filed in the order given
MetricMapping(shapes) ==
    [p \in DOMAIN EmptyAnalysis |->
        LET mine == SelectSeq(shapes, LAMBDA x : x.bucket = p)
        IN [k \in 1..Len(mine) |-> MetricRecord(mine[k])]]

MetricInputs == {MetricMapping(shapes) : shapes \in SeqsUpTo(MetricShapes, MaxRecords)}

InitMetrics == pc = "idle" /\ arg \in MetricInputs /\ ret = None /\ AtRest

\* lines 116-119 without _get_top_performers
Metrics ==
    /\ pc = "idle"
    /\ ret' = [viral_metrics |-> _calculate_viral_metrics(arg),
               engagement_insights |-> _generate_engagement_insights(arg)]
    /\ pc' = "aggregated"
    /\ UNCHANGED <<arg, RunVars>>

SpecMetrics == InitMetrics /\ [][Metrics]_vars

\* the words a YouTube title is made of
w_10       == <<"1","0">>
w_2        == <<"2">>
w_1_5      == <<"1",".","5">>
w_mil      == <<"m","i","l">>
w_million  == <<"m","i","l","l","i","o","n">>
w_MILLION  == <<"M","I","L","L","I","O","N">>
w_milhao   == <<"m","i","l","h","a~","o">>
w_k        == <<"k">>
w_thousand == <<"t","h","o","u","s","a","n","d">>
w_views    == <<"v","i","e","w","s">>

TitleWords == {w_10, w_2, w_1_5, w_mil, w_million, w_MILLION, w_milhao, w_k, w_thousand, w_views}

\* a title is at most this many words
MaxWords == 3

RECURSIVE JoinWords(_)
\* the words with one space between them
JoinWords(ws) ==
    IF ws = <<>> THEN <<>>
    ELSE IF Len(ws) = 1 THEN Head(ws)
    ELSE Head(ws) \o <<" ">> \o JoinWords(Tail(ws))

\* Candidates: a title, a description or none, an initial_score or none
YoutubeInputs ==
    {[title |-> JoinWords(ws)] @@ d @@ i :
        ws \in SeqsUpTo(TitleWords, MaxWords),
        d \in {EmptyDict, [description |-> w_million]},
        i \in {EmptyDict, [initial_score |-> 33]}}

InitYoutube == pc = "idle" /\ arg \in YoutubeInputs /\ ret = None /\ AtRest

Youtube ==
    /\ pc = "idle"
    /\ ret' = _analyze_youtube_video(url_yt, arg)
    /\ pc' = "parsed"
    /\ UNCHANGED <<arg, RunVars>>

SpecYoutube == InitYoutube /\ [][Youtube]_vars

-----------------------------------------------------------------------------
(* Properties *)

Started == pc # "idle"
Candidates == analysis_results.viral_content_identified
Returned == pc = "returned"
Succeeded == Returned /\ analysis_results.success

ScoreInRange(r, field) == field \in DOMAIN r /\ r[field] >= 0 /\ r[field] <= 100

\* C1: in every state of a run, every Candidate of viral_content_identified
\* has an initial_score in [0,100], and every record of the mapping being
\* filled, of platform_analysis and of top_performers has a viral_score in
\* [0,100], whichever path made the record.
C1_ScoresInRange ==
    Started =>
        /\ \A i \in 1..Len(Candidates) : ScoreInRange(Candidates[i], "initial_score")
        /\ \A p \in DOMAIN platform_analysis :
               \A k \in 1..Len(platform_analysis[p]) :
                   ScoreInRange(platform_analysis[p][k], "viral_score")
        /\ \A p \in DOMAIN analysis_results.platform_analysis :
               \A k \in 1..Len(analysis_results.platform_analysis[p]) :
                   ScoreInRange(analysis_results.platform_analysis[p][k], "viral_score")
        /\ \A i \in 1..Len(analysis_results.top_performers) :
               ScoreInRange(analysis_results.top_performers[i], "viral_score")

\* a run that returned a Candidate whose score was cut to 100 (a result with
\* no title among the Candidates) and ranked a scraped Instagram record
C1_Witness ==
    /\ Succeeded
    /\ \E i \in 1..Len(Candidates) : Candidates[i].initial_score = 100
    /\ \E i \in 1..Len(analysis_results.top_performers) :
           LET r == analysis_results.top_performers[i] IN
           r.platform = "instagram" /\ r.viral_score = 91

\* C2: after the filter, every Candidate stems from a visited result that is
\* a dict with a str url the classifier recognizes, carries that result's url
\* and source, and its platform is one of the six platform tags.
KnownPlatforms == {"instagram", "youtube", "facebook", "twitter", "tiktok", "linkedin"}

C2_CandidatesHaveRecognizedUrl ==
    pc = "filtered" =>
        \A i \in 1..Len(ret) :
            /\ ret[i].platform \in KnownPlatforms
            /\ \E k \in 1..Len(Visits(arg)) :
                   LET v == Visits(arg)[k] IN
                   /\ v.result.type = "dict"
                   /\ "url" \in DOMAIN v.result.d
                   /\ v.result.d.url.type = "str"
                   /\ v.result.d.url = ret[i].url
                   /\ v.source = ret[i].source
                   /\ _identify_platform(v.result.d.url.s) = ret[i].platform

\* one result promoted, and beside it a result with no url, one that is not a
\* dict, or one whose url is of no known platform
C2_Witness ==
    /\ pc = "filtered"
    /\ Len(ret) = 1
    /\ \E k \in 1..Len(Visits(arg)) : Visits(arg)[k].result \in {r_nourl, r_notdict, r_other}

\* C3: the classifier returns the platform of the first fragment, in the fixed
\* order, that the lower-cased URL contains, and None exactly when it
\* contains none.
FragmentOrder == <<
    [fragment |-> s_instagram_com, platform |-> "instagram"],
    [fragment |-> s_youtube_com, platform |-> "youtube"],
    [fragment |-> s_youtu_be, platform |-> "youtube"],
    [fragment |-> s_facebook_com, platform |-> "facebook"],
    [fragment |-> s_fb_com, platform |-> "facebook"],
    [fragment |-> s_twitter_com, platform |-> "twitter"],
    [fragment |-> s_x_com, platform |-> "twitter"],
    [fragment |-> s_tiktok_com, platform |-> "tiktok"],
    [fragment |-> s_linkedin_com, platform |-> "linkedin"] >>

\* the fragments some stretch of the URL spells, whatever its case
FragmentsIn(url) ==
    {i \in 1..Len(FragmentOrder) :
        \E a \in 1..(Len(url) - Len(FragmentOrder[i].fragment) + 1) :
            Lower(SubSeq(url, a, a + Len(FragmentOrder[i].fragment) - 1))
                = FragmentOrder[i].fragment}

C3_FirstFragmentWins ==
    pc = "classified" =>
        LET hits == FragmentsIn(arg) IN
        /\ (ret = None) <=> (hits = {})
        /\ hits # {} =>
               ret = FragmentOrder[CHOOSE i \in hits : \A j \in hits : i <= j].platform

\* a URL with fragments of two platforms, the later platform's fragment
\* written first and the earlier one's in upper case
C3_Witness ==
    /\ pc = "classified"
    /\ arg = s_x_com \o p_ig_upper
    /\ ret = "instagram"

\* a record made by the basic pass-through from the candidate c
IsBasicRecordOf(r, c) ==
    /\ DOMAIN r = {"url", "platform", "title", "description", "viral_score",
                   "analysis_method"}
    /\ r.analysis_method = "basic_fallback"
    /\ r.url = c.url /\ r.platform = c.platform
    /\ r.title = c.title /\ r.description = c.description
    /\ r.viral_score = c.initial_score

\* two candidates that differ at most in the source they came from
AlikeButSource(c1, c2) ==
    [c1 EXCEPT !.source = ""] = [c2 EXCEPT !.source = ""]

\* C4: without the scraping library, the records filed so far are, one for
\* one, the basic pass-through records of the candidates taken so far
\* (Instagram candidates included), each with analysis_method "basic_fallback"
\* and the candidate's initial_score as viral_score; there is no other record.
C4_AllFallbackWithoutScraper ==
    (~HAS_INSTASCRAPE /\ pc \in {"fallback", "save", "returned"}
       /\ platform_analysis # EmptyDict) =>
        LET records == AllContent(platform_analysis) IN
        /\ Len(records) = idx
        /\ pc # "fallback" => idx = Len(viral_urls)
        /\ \A k \in 1..Len(records) : records[k].analysis_method = "basic_fallback"
        /\ \A j \in 1..idx :
               Cardinality({k \in 1..Len(records) :
                               IsBasicRecordOf(records[k], viral_urls[j])})
                   = Cardinality({i \in 1..idx :
                                     AlikeButSource(viral_urls[i], viral_urls[j])})

\* a finished run without the library over an Instagram candidate and another
C4_Witness ==
    /\ ~HAS_INSTASCRAPE
    /\ Succeeded
    /\ Len(viral_urls) = 2
    /\ viral_urls[1].platform = "instagram"
    /\ viral_urls[2].platform # "instagram"
    /\ Len(analysis_results.platform_analysis.instagram) = 1

IsNonIncreasing(seq) ==
    \A i \in 1..(Len(seq) - 1) : ScoreKey(seq[i]) >= ScoreKey(seq[i + 1])

\* the place of the record with this url in a sequence of records
PlaceOf(url, seq) == CHOOSE i \in 1..Len(seq) : seq[i].url = url

\* C5: top_performers holds only records of the mapping, none twice, in
\* non-increasing order of viral_score (0 when missing), exactly
\* min(top_n, number of records) of them, and records of equal score in the
\* order they have in the concatenation of the mapping's lists.
C5_TopPerformers ==
    pc = "ranked" =>
        LET all == AllContent(arg.pa) IN
        /\ Len(ret) = Min(arg.top_n, Len(all))
        /\ \A i \in 1..Len(ret) : \E k \in 1..Len(all) : all[k] = ret[i]
        /\ \A i \in 1..Len(ret), j \in 1..Len(ret) : i # j => ret[i].url # ret[j].url
        /\ IsNonIncreasing(ret)
        /\ \A i \in 1..Len(ret), j \in 1..Len(ret) :
               (i < j /\ ScoreKey(ret[i]) = ScoreKey(ret[j]))
                   => PlaceOf(ret[i].url, all) < PlaceOf(ret[j].url, all)

\* three records in two lists, cut to two, the two kept tied at 0, one of them
\* without a viral_score, and the record left out tied with them
C5_Witness ==
    /\ pc = "ranked"
    /\ arg.top_n = 2
    /\ Len(AllContent(arg.pa)) = 3
    /\ Len(arg.pa.instagram) = 1 /\ Len(arg.pa.other) = 2
    /\ Len(ret) = 2
    /\ "viral_score" \notin DOMAIN ret[1]
    /\ "viral_score" \in DOMAIN ret[2] /\ ret[2].viral_score = 0
    /\ \A k \in 1..3 : ScoreKey(AllContent(arg.pa)[k]) = 0

ThisRunsFile == FileName(analysis_results.session_id, clock)

\* C6 as stated: once analyze has returned, exactly one file of this session
\* exists and it holds the returned AnalysisResult, whether success is true
\* or false.
C6_AsStated ==
    Returned =>
        /\ Cardinality(files) = 1
        /\ \A f \in files :
               f.name = ThisRunsFile /\ f.complete /\ f.results = analysis_results

\* C6 amended: nothing is written before the run has set success = true; once
\* analyze has returned there is at most one file, named from the session id
\* and the time of the write; a run that ended with success false has written
\* none, and a file that was written whole holds the returned AnalysisResult.
C6_AtMostOneArtifactOnSuccess ==
    /\ pc \notin {"returned"} => files = {}
    /\ Returned =>
        /\ Cardinality(files) <= 1
        /\ ~analysis_results.success => files = {}
        /\ \A f \in files :
               /\ f.name = ThisRunsFile
               /\ f.complete => f.results = analysis_results

\* a successful run whose write went through
C6_Witness ==
    /\ Succeeded
    /\ \E f \in files : f.complete /\ f.results = analysis_results
    /\ Len(Candidates) = 2

\* the positions of a run; there is none where an exception has left analyze
RunPositions == {"idle", "phase2", "loop", "sleep", "fallback", "save", "returned"}

\* C7: no exception leaves analyze, and what it returns has a success flag.
\* After the slice of line 110 raised: success is false, the error message is
\* attached, the Candidates found before it are kept, the later fields are as
\* created, and nothing was written.  Otherwise success is true and
\* analysis_completed is set, whatever the write did.
C7_NeverRaises ==
    /\ pc \in RunPositions
    /\ Returned =>
        /\ "success" \in DOMAIN analysis_results
        /\ analysis_results.success <=> "analysis_completed" \in DOMAIN analysis_results
        /\ analysis_results.success <=> "error" \notin DOMAIN analysis_results
        /\ analysis_results.success <=> IsNum(max_captures)
        /\ ~analysis_results.success =>
               /\ files = {}
               /\ Candidates = _identify_viral_content(search_results)
               /\ analysis_results.platform_analysis = EmptyDict
               /\ analysis_results.viral_metrics = EmptyDict
               /\ analysis_results.top_performers = <<>>
               /\ analysis_results.engagement_insights = EmptyDict

\* a failed run that keeps the Candidates it had found
C7_Witness ==
    /\ Returned
    /\ ~analysis_results.success
    /\ analysis_results.error = "TypeError"
    /\ Len(Candidates) = 2
    /\ files = {}

\* a successful run whose write failed
C7_WriteFailed ==
    /\ Succeeded
    /\ \A f \in files : ~f.complete

\* the Candidates of every visited result that qualifies, in visiting order
RECURSIVE AllQualifying(_)
AllQualifying(visits) ==
    IF visits = <<>> THEN <<>>
    ELSE (IF Qualifies(Head(visits).result)
          THEN <<Candidate(Head(visits).source, Head(visits).result)>> ELSE <<>>)
         \o AllQualifying(Tail(visits))

\* C8: a result whose processing raises is passed over and every other
\* result, before or after it, in the same list or a later one, is promoted
\* if it qualifies.
C8_FailureNotFatalToBatch ==
    pc = "filtered" => ret = AllQualifying(Visits(arg))

Enriching == pc \in {"loop", "sleep", "fallback", "save"} \/ Succeeded

\* the enrichment of the j-th candidate taken failed: the scrape raised, or
\* what it left made the computations of lines 322-325 raise
Failed(j) ==
    \/ outcomes[j].type = "raises"
    \/ outcomes[j].type = "post" /\ InstagramRaises(outcomes[j].post)

\* the candidates taken so far that did not fail and belong in this bucket
KeptFor(bucket) ==
    SelectSeq([j \in 1..idx |-> j],
              LAMBDA j : ~Failed(j) /\ Bucket(viral_urls[j].platform) = bucket)

\* C9 (max_captures a count): the enrichment is handed the first max_captures
\* Candidates and no other; it takes them one at a time in order; each bucket
\* of the mapping holds, in candidate order, one record for each candidate
\* taken so far that did not fail and none for one that failed; so
\* total_content_analyzed is at most min(max_captures, number of Candidates).
C9_FailureDropsOnlyThatCandidate ==
    Enriching =>
        /\ viral_urls = SubSeq(Candidates, 1, Min(max_captures.n, Len(Candidates)))
        /\ idx <= Len(viral_urls) /\ Len(outcomes) = idx
        /\ \A b \in DOMAIN platform_analysis :
               /\ Len(platform_analysis[b]) = Len(KeptFor(b))
               /\ \A k \in 1..Len(platform_analysis[b]) :
                      /\ platform_analysis[b][k].url = viral_urls[KeptFor(b)[k]].url
                      /\ platform_analysis[b][k].title = viral_urls[KeptFor(b)[k]].title
        /\ Succeeded =>
               /\ analysis_results.platform_analysis = platform_analysis
               /\ analysis_results.viral_metrics.total_content_analyzed
                      <= Min(max_captures.n, Len(Candidates))

\* two Instagram candidates, the scrape of the first raised, the second is the
\* only record
C9_Witness ==
    /\ HAS_INSTASCRAPE
    /\ Succeeded
    /\ Len(viral_urls) = 2
    /\ outcomes[1] = ScrapeRaises
    /\ ~Failed(2)
    /\ Len(analysis_results.platform_analysis.instagram) = 1
    /\ analysis_results.platform_analysis.instagram[1].url = viral_urls[2].url
    /\ analysis_results.viral_metrics.total_content_analyzed = 1

\* C10 as stated: on every path, a candidate is taken only after a pause has
\* followed each candidate taken before it.
C10_AsStated == idx <= clock + 1

\* C10 amended: with the scraping library available, a pause of one time unit
\* follows each candidate taken (Instagram, also when its enrichment failed,
\* YouTube, or basic analysis) before the next is taken; without the library
\* no pause happens.
C10_PauseOnlyWithScraper ==
    /\ HAS_INSTASCRAPE => clock = IF pc = "sleep" THEN idx - 1 ELSE idx
    /\ ~HAS_INSTASCRAPE => clock = 0

\* two candidates taken with the library, the first one failed, two pauses
C10_Witness ==
    /\ HAS_INSTASCRAPE
    /\ pc = "loop"
    /\ idx = 2 /\ clock = 2
    /\ Failed(1)
    /\ viral_urls[2].platform # "instagram"

Scored == pc = "scored"

\* the field is absent or holds a value the comparisons and len accept
Usable(analysis, key, kind) == key \in DOMAIN analysis => analysis[key].type = kind

AllUsable(analysis) ==
    /\ Usable(analysis, "likes", "num") /\ Usable(analysis, "comments", "num")
    /\ Usable(analysis, "engagement_rate", "num")
    /\ Usable(analysis, "hashtags", "list") /\ Usable(analysis, "mentions", "list")

\* the terms of the Instagram formula as the specification words them; an
\* absent field counts as 0
TermL(a) == IF "likes" \notin DOMAIN a THEN 0
            ELSE IF a.likes.n >= 1000 THEN 30 ELSE IF a.likes.n >= 500 THEN 15 ELSE 0
TermC(a) == IF "comments" \notin DOMAIN a THEN 0
            ELSE IF a.comments.n >= 50 THEN 20 ELSE IF a.comments.n >= 25 THEN 10 ELSE 0
TermE(a) == IF "engagement_rate" \notin DOMAIN a THEN 0
            ELSE IF a.engagement_rate.num >= 3 * a.engagement_rate.den THEN 25
            ELSE IF 2 * a.engagement_rate.num >= 3 * a.engagement_rate.den THEN 15
            ELSE 0
TermH(a) == IF "hashtags" \notin DOMAIN a THEN 0 ELSE Min(2 * Len(a.hashtags.items), 10)
TermM(a) == IF "mentions" \notin DOMAIN a THEN 0 ELSE Min(3 * Len(a.mentions.items), 15)

\* C11: for an Instagram record whose fields are numbers and lists or absent,
\* the score is min(100, L + C + E + min(2h, 10) + min(3m, 15)) with L = 30
\* from 1000 likes, 15 from 500; C = 20 from 50 comments, 10 from 25; E = 25
\* from an engagement rate of 3, 15 from 1.5; an absent field counts as 0.
C11_InstagramFormula ==
    (Scored /\ arg.platform = "instagram" /\ AllUsable(arg.analysis)) =>
        ret = Min(100, TermL(arg.analysis) + TermC(arg.analysis) + TermE(arg.analysis)
                       + TermH(arg.analysis) + TermM(arg.analysis))

\* likes 2000, comments 100, engagement rate 5, five hashtags, two mentions: 91
C11_Witness ==
    /\ Scored
    /\ arg.platform = "instagram"
    /\ arg.analysis = [likes |-> Num(2000), comments |-> Num(100),
                       engagement_rate |-> Frac(5, 1), hashtags |-> TagList(5),
                       mentions |-> TagList(2)]
    /\ ret = 91

\* a term whose field holds an unusable value contributes 0
TermOrZero(a, key, kind, term) ==
    IF key \in DOMAIN a /\ a[key].type # kind THEN 0 ELSE term

\* C12: an unusable value costs the Instagram score only its own term: every
\* other term, before or after it, contributes its normal amount.
C12_FaultCostsOnlyItsTerm ==
    (Scored /\ arg.platform = "instagram") =>
        ret = Min(100, TermOrZero(arg.analysis, "likes", "num", TermL(arg.analysis))
                       + TermOrZero(arg.analysis, "comments", "num", TermC(arg.analysis))
                       + TermOrZero(arg.analysis, "engagement_rate", "num",
                                    TermE(arg.analysis))
                       + TermOrZero(arg.analysis, "hashtags", "list", TermH(arg.analysis))
                       + TermOrZero(arg.analysis, "mentions", "list", TermM(arg.analysis)))

Aggregated == pc = "aggregated"

\* counted over the platforms of a mapping
OverPlatforms(F(_)) == Sum([i \in 1..Len(PlatformOrder) |-> F(PlatformOrder[i])])

CountAll(pa) == LET n(p) == Len(pa[p]) IN OverPlatforms(n)

ViralCount(pa) ==
    LET n(p) == Cardinality({k \in 1..Len(pa[p]) : Get(pa[p][k], "viral_score", 0) >= 50})
    IN OverPlatforms(n)

ScoreSum(pa) ==
    LET n(p) == Sum([k \in 1..Len(pa[p]) |-> Get(pa[p][k], "viral_score", 0)])
    IN OverPlatforms(n)

SumOfDistribution(d) ==
    LET n(p) == IF p \in DOMAIN d THEN d[p] ELSE 0 IN OverPlatforms(n)

\* every engagement field of every record is a number or absent
NumericFields(pa) ==
    \A p \in DOMAIN pa : \A k \in 1..Len(pa[p]) :
        \A f \in {"likes", "comments", "shares", "views"} :
            IsNum(Get(pa[p][k], f, Num(0)))

\* C13: for a mapping whose records have numeric fields, total_content_analyzed
\* is the number of records and the sum of the platform_distribution counts;
\* platform_distribution has an entry exactly for each platform with a record;
\* viral_content_count is the number of records with viral_score >= 50; and
\* average_viral_score is the mean of the scores, 0 when there is no record.
C13_MetricsCountAndMean ==
    (Aggregated /\ NumericFields(arg)) =>
        LET m == ret.viral_metrics
            n == CountAll(arg)
        IN /\ m.total_content_analyzed = n
           /\ SumOfDistribution(m.platform_distribution) = n
           /\ DOMAIN m.platform_distribution = {p \in DOMAIN arg : arg[p] # <<>>}
           /\ \A p \in DOMAIN m.platform_distribution :
                  m.platform_distribution[p] = Len(arg[p])
           /\ m.viral_content_count = ViralCount(arg)
           /\ m.viral_content_count <= m.total_content_analyzed
           /\ IF n = 0 THEN m.average_viral_score = Frac(0, 1)
              ELSE m.average_viral_score.num * n
                       = ScoreSum(arg) * m.average_viral_score.den

\* scores 50 and 49 on Instagram and a record without score elsewhere: three
\* records, one viral, mean 33
C13_Witness ==
    /\ Aggregated
    /\ arg.instagram = <<[viral_score |-> 50, likes |-> Num(7)],
                         [viral_score |-> 49, likes |-> Num(7)]>>
    /\ arg.other = <<[likes |-> Num(7)]>>
    /\ ret.viral_metrics.total_content_analyzed = 3
    /\ ret.viral_metrics.viral_content_count = 1
    /\ ret.viral_metrics.platform_distribution = [instagram |-> 2, other |-> 1]
    /\ ret.viral_metrics.average_viral_score = Frac(99, 3)

\* no record at all: the mean is 0
C13_Empty ==
    /\ Aggregated
    /\ CountAll(arg) = 0
    /\ ret.viral_metrics.average_viral_score = Frac(0, 1)

\* C14: when the sum of an engagement field fails on a record, the totals that
\* failed are left at their default 0, the counts that did not fail hold
\* their full values, viral_content_count <= total_content_analyzed and the
\* platform_distribution counts sum to total_content_analyzed.
C14_FailedSubfieldAtDefault ==
    (Aggregated /\ ~NumericFields(arg)) =>
        LET m == ret.viral_metrics
        IN /\ m.engagement_totals.total_likes = 0
           /\ m.total_content_analyzed = CountAll(arg)
           /\ m.viral_content_count = ViralCount(arg)
           /\ m.viral_content_count <= m.total_content_analyzed
           /\ SumOfDistribution(m.platform_distribution) = m.total_content_analyzed

Parsed == pc = "parsed"

\* the text the pattern of line 357 is run on
TextOf(content) ==
    Lower(Get(content, "title", <<>>) \o <<" ">> \o Get(content, "description", <<>>))

\* the starts of the matches of the pattern
Matches(t) == {i \in 1..Len(t) : MatchAt(t, i) # 0}

FirstMatch(t) == CHOOSE i \in Matches(t) : \A j \in Matches(t) : i <= j

\* the multiplier of the unit that stands at position j
UnitMultiplier(t, j) ==
    IF \E u \in {u_million, u_milhao} :
           j + Len(u) - 1 <= Len(t) /\ SubSeq(t, j, j + Len(u) - 1) = u
    THEN 1000000 ELSE 1000

\* C15: views is the number of the first match times the multiplier of the
\* unit matched with it, whatever other unit words the text holds, and 0 when
\* nothing matches; viral_score is the candidate's initial_score.
C15_MultiplierOfMatchedUnit ==
    Parsed =>
        LET t == TextOf(arg) IN
        /\ ret.viral_score = Get(arg, "initial_score", 0)
        /\ ret.views =
               IF Matches(t) = {} THEN Num(0)
               ELSE LET i == FirstMatch(t)
                        k == MatchAt(t, i)
                    IN Num(Scaled(t, i, k, UnitMultiplier(t, SpacesEnd(t, k))))

=============================================================================
